---------------------------- MODULE Spec2Model ----------------------------
(***************************************************************************)
(* A model of the multi-provider MCP client  (src/client_super.py):        *)
(* main() reads mcp.json, connects every configured provider through       *)
(* MCPClient.connect_to_server, runs MCPClient.chat_loop, which drives     *)
(* MCPClient.process_query once per line read, and finally runs            *)
(* MCPClient.cleanup.  The model inference API, the provider processes and *)
(* the console are the environment: their answers are chosen by \E.        *)
(*                                                                         *)
(* Strings that the program builds are sequences of tokens, "" is <<>>,    *)
(* a token is a tuple; Python's None is the one-token text NoneVal.        *)
(***************************************************************************)
EXTENDS Integers, Sequences, FiniteSets, TLC

(***************************************************************************)
(* Bounds of the exploration.                                              *)
(***************************************************************************)
\* model calls made by one process_query
MaxModelCalls == 3
\* tool calls the model requests over one process_query (call ids 1..MaxCallId)
MaxCallId == 3
\* lines read by chat_loop before the environment enters the exit keyword
MaxQueries == 2
\* the maximum number of model calls that a round limit, if there were one, allows
RoundLimit == 2

(***************************************************************************)
(* The environment's small sets.                                           *)
(***************************************************************************)
\* the provider names mcp.json may use; its mapping holds each at most once
Providers == {"p1", "p2"}
\* what a provider may answer to list_tools
ToolLists == {<<"t1">>, <<"t1", "t2">>}
\* the function part of a tool call in a model response: a tool name, which the
\* catalog may or may not hold, and an arguments string, JSON text or not
RequestCalls == {<<"t1", "{}">>, <<"t2", "{}">>, <<"t1", "{bad">>}
\* the content of a model response: None or a text
NoneVal == << <<"None">> >>
Contents == {NoneVal, << <<"txt", "hi">> >>}
\* the lines the console may deliver
Inputs == {"hello", "quit", " Quit "}
\* what mcp.json may be
ConfigKinds == {"nofile", "badjson", "nokey", "empty", "ok"}

VARIABLES
    config,          \* mcp.json: [kind, servers], servers a sequence of [name, complete]
    pc,              \* where main() stands
    i,               \* main's for loop: index of the next entry of config.servers
    sessions,        \* MCPClient.sessions: provider name -> session
    tools,           \* MCPClient.tools: ordered dict, a sequence of <<name, tool list>>
    tool_to_server,  \* MCPClient.tool_to_server: tool name -> provider name
    exit_stack,      \* MCPClient.exit_stack: the contexts entered, oldest first
    closed,          \* the contexts whose exit ran
    stdout,          \* what start-up and teardown printed, in order
    pending,         \* the exception propagating out of main's try, "none" if none
    exitStatus,      \* the process's exit status, -1 while it runs
    nQueries,        \* lines chat_loop has read
    qpc,             \* where process_query stands
    query,           \* the line being processed
    messages,        \* process_query's messages
    final_text,      \* process_query's final_text
    message,         \* process_query's message: the last model response
    k,               \* index into message.tool_calls of the for loop
    roundStart,      \* Len(messages) when the last model response arrived
    modelCalls,      \* model calls made by this process_query
    nextId,          \* the next call id the model API will hand out
    invoked,         \* the call_tool requests sent by this process_query, in order
    responses,       \* the model responses this process_query received, in order
    lastPrint        \* what chat_loop printed since it last read a line
vars == <<config, pc, i, sessions, tools, tool_to_server, exit_stack, closed, stdout,
          pending, exitStatus, nQueries, qpc, query, messages, final_text, message, k,
          roundStart, modelCalls, nextId, invoked, responses, lastPrint>>
startVars == <<config, i, sessions, tools, tool_to_server, exit_stack, closed, stdout,
               pending, exitStatus>>
queryVars == <<qpc, query, messages, final_text, message, k, roundStart, modelCalls,
               nextId, invoked, responses>>

(***************************************************************************)
(* Python values.                                                          *)
(***************************************************************************)
EmptyDict == [x \in {} |-> x]
DictPut(d, key, v) == [x \in DOMAIN d \cup {key} |-> IF x = key THEN v ELSE d[x]]

\* d[key] = v on an insertion-ordered dict: a new key goes last, an old one keeps its place
OrderedPut(d, key, v) ==
    IF \E j \in 1..Len(d) : d[j][1] = key
    THEN [j \in 1..Len(d) |-> IF d[j][1] = key THEN <<key, v>> ELSE d[j]]
    ELSE Append(d, <<key, v>>)
OrderedKeys(d) == {d[j][1] : j \in 1..Len(d)}

RECURSIVE Flatten(_)
\* all_tools = []; for tool_list in d.values(): all_tools.extend(tool_list)
Flatten(d) == IF d = <<>> THEN <<>> ELSE d[1][2] \o Flatten(Tail(d))

Range(s) == {s[j] : j \in 1..Len(s)}

\* x or ""
OrEmpty(x) == IF x = NoneVal \/ x = <<>> THEN <<>> ELSE x
\* bool(x) of a text or None
Truthy(x) == x # NoneVal /\ x # <<>>

RECURSIVE Join_Terminated(_)
\* a bug: every segment is followed by a newline
Join_Terminated(segs) ==
    IF segs = <<>> THEN <<>> ELSE segs[1] \o << <<"nl">> >> \o Join_Terminated(Tail(segs))

RECURSIVE Join(_)
\* "\n".join(segments)
Join(segs) ==
    IF segs = <<>> THEN <<>>
    ELSE IF Len(segs) = 1 THEN segs[1]
    ELSE segs[1] \o << <<"nl">> >> \o Join(Tail(segs))

\* json.loads: the value, or "raise"
JsonLoads(s) == IF s = "{}" THEN "emptyobj" ELSE "raise"
\* json.dumps
JsonDumps(v) == IF v = "emptyobj" THEN "{}" ELSE "null"

\* str(x): a str is itself, any other object is its repr
Str(x) == IF x.isStr THEN x.text ELSE << <<"repr", x.obj>> >>

\* line.strip()
Strip(line) == IF line = " Quit " THEN "Quit" ELSE line
\* a bug: the exit keyword is compared without lower()
Lower_Identity(line) == line

\* line.lower()
Lower(line) == IF line = "Quit" THEN "quit" ELSE IF line = " Quit " THEN " quit " ELSE line


(***************************************************************************)
(* The initial state: a fresh MCPClient, and whatever mcp.json holds.      *)
(***************************************************************************)
ServerSeqs(n) ==
    {s \in [1..n -> [name : Providers, complete : BOOLEAN]] :
        \A a, b \in 1..n : a # b => s[a].name # s[b].name}
Configs ==
    {[kind |-> kd, servers |-> <<>>] : kd \in ConfigKinds \ {"ok"}}
    \cup {[kind |-> "ok", servers |-> s] : s \in UNION {ServerSeqs(n) : n \in 1..Cardinality(Providers)}}

NoMessage == [content |-> NoneVal, tool_calls |-> <<>>]

QueryIdle ==
    /\ qpc = "idle"
    /\ query = ""
    /\ messages = <<>>
    /\ final_text = <<>>
    /\ message = NoMessage
    /\ k = 0
    /\ roundStart = 0
    /\ modelCalls = 0
    /\ nextId = 1
    /\ invoked = <<>>
    /\ responses = <<>>

Init ==
    /\ config \in Configs
    /\ pc = "main"
    /\ i = 0
    /\ sessions = EmptyDict
    /\ tools = <<>>
    /\ tool_to_server = EmptyDict
    /\ exit_stack = <<>>
    /\ closed = {}
    /\ stdout = <<>>
    /\ pending = "none"
    /\ exitStatus = -1
    /\ nQueries = 0
    /\ lastPrint = <<>>
    /\ QueryIdle

(***************************************************************************)
(* main(): reading the configuration.                                      *)
(***************************************************************************)
LoadConfig ==
    /\ pc = "main"
    /\ IF config.kind = "ok"
       THEN /\ pc' = "for"
            /\ i' = 1
            /\ stdout' = stdout
       ELSE /\ pc' = "finally"
            /\ i' = i
            /\ stdout' = Append(stdout, <<"config_error", config.kind>>)
    /\ UNCHANGED <<config, sessions, tools, tool_to_server, exit_stack, closed, pending,
                   exitStatus, nQueries, lastPrint>>
    /\ UNCHANGED queryVars

\* a bug: return in place of continue
SkipIncomplete_Return ==
    /\ pc = "for"
    /\ i <= Len(config.servers)
    /\ ~config.servers[i].complete
    /\ stdout' = Append(stdout, <<"incomplete", config.servers[i].name>>)
    /\ pc' = "finally"
    /\ UNCHANGED <<config, i, sessions, tools, tool_to_server, exit_stack, closed, pending,
                   exitStatus, nQueries, lastPrint>>
    /\ UNCHANGED queryVars

\* main()'s for loop on an entry without 'command' or 'args'
SkipIncomplete ==
    /\ pc = "for"
    /\ i <= Len(config.servers)
    /\ ~config.servers[i].complete
    /\ stdout' = Append(stdout, <<"incomplete", config.servers[i].name>>)
    /\ i' = i + 1
    /\ UNCHANGED <<config, pc, sessions, tools, tool_to_server, exit_stack, closed, pending,
                   exitStatus, nQueries, lastPrint>>
    /\ UNCHANGED queryVars

(***************************************************************************)
(* MCPClient.connect_to_server.                                            *)
(***************************************************************************)
Session(name) == <<"session", name>>
Transport(name) == <<"transport", name>>

\* a bug: only the first tool of a provider is entered in the index
RegisterTools_FirstOnly(index, toolList, name) ==
    IF toolList = <<>> THEN index ELSE DictPut(index, toolList[1], name)

RECURSIVE RegisterTools(_, _, _)
\* for tool in response.tools: self.tool_to_server[tool.name] = name
RegisterTools(index, toolList, name) ==
    IF toolList = <<>> THEN index
    ELSE RegisterTools(DictPut(index, toolList[1], name), Tail(toolList), name)

\* the awaits of connect_to_server, in order; any of them may raise
ConnectSteps == <<"stdio_client", "ClientSession", "initialize", "list_tools">>
StepIndex(step) == CHOOSE n \in 1..Len(ConnectSteps) : ConnectSteps[n] = step

\* what connect_to_server printed when it got past `reached` of its awaits
ConnectPrints(name, reached, toolList) ==
    << <<"connecting", name>> >>
    \o (IF reached >= 1 THEN << <<"connected", name>> >> ELSE <<>>)
    \o (IF reached >= 4 THEN << <<"has_tools", name, toolList>> >> ELSE <<>>)

\* the contexts connect_to_server pushed when it got past `reached` of its awaits
ConnectPushed(name, reached) ==
    (IF reached >= 1 THEN <<Transport(name)>> ELSE <<>>)
    \o (IF reached >= 2 THEN <<Session(name)>> ELSE <<>>)

\* main()'s for loop on a complete entry whose connect_to_server returns
ConnectToServer ==
    /\ pc = "for"
    /\ i <= Len(config.servers)
    /\ config.servers[i].complete
    /\ LET name == config.servers[i].name IN
       \E toolList \in ToolLists :
          /\ exit_stack' = exit_stack \o ConnectPushed(name, 4)
          /\ sessions' = DictPut(sessions, name, Session(name))
          /\ tools' = OrderedPut(tools, name, toolList)
          /\ tool_to_server' = RegisterTools(tool_to_server, toolList, name)
          /\ stdout' = stdout \o ConnectPrints(name, 4, toolList)
    /\ i' = i + 1
    /\ UNCHANGED <<config, pc, closed, pending, exitStatus, nQueries, lastPrint>>
    /\ UNCHANGED queryVars

\* main()'s for loop on a complete entry whose connect_to_server raises at `step`:
\* main catches only FileNotFoundError and JSONDecodeError, then runs its finally
ConnectRaises ==
    /\ pc = "for"
    /\ i <= Len(config.servers)
    /\ config.servers[i].complete
    /\ LET name == config.servers[i].name IN
       \E step \in Range(ConnectSteps), exc \in {"FileNotFoundError", "Exception"} :
          LET reached == StepIndex(step) - 1 IN
          /\ exc = "FileNotFoundError" => step = "stdio_client"
          /\ exit_stack' = exit_stack \o ConnectPushed(name, reached)
          /\ sessions' = IF reached >= 2 THEN DictPut(sessions, name, Session(name))
                         ELSE sessions
          /\ stdout' = stdout \o ConnectPrints(name, reached, <<>>)
                       \o (IF exc = "FileNotFoundError"
                           THEN << <<"config_error", "nofile">> >> ELSE <<>>)
          /\ pending' = IF exc = "FileNotFoundError" THEN "none" ELSE exc
    /\ pc' = "finally"
    /\ UNCHANGED <<config, i, tools, tool_to_server, closed, exitStatus, nQueries, lastPrint>>
    /\ UNCHANGED queryVars

\* the for loop is over: chat_loop starts
EnterChatLoop ==
    /\ pc = "for"
    /\ i > Len(config.servers)
    /\ pc' = "chat_loop"
    /\ stdout' = Append(stdout, <<"started">>)
    /\ UNCHANGED <<config, i, sessions, tools, tool_to_server, exit_stack, closed, pending,
                   exitStatus, nQueries, lastPrint>>
    /\ UNCHANGED queryVars

(***************************************************************************)
(* MCPClient.cleanup, from main()'s finally, and the end of the process.   *)
(***************************************************************************)
\* AsyncExitStack.aclose(): every pushed context is exited, newest first, whether or
\* not an earlier exit raised; the last exception raised is re-raised at the end
Cleanup ==
    /\ pc = "finally"
    /\ \E failing \in SUBSET Range(exit_stack) :
          /\ closed' = closed \cup Range(exit_stack)
          /\ exit_stack' = <<>>
          /\ pending' = IF failing # {} THEN "close_error" ELSE pending
    /\ pc' = "cleaned"
    /\ UNCHANGED <<config, i, sessions, tools, tool_to_server, stdout, exitStatus,
                   nQueries, lastPrint>>
    /\ UNCHANGED queryVars

\* asyncio.run(main()) returns, or the exception leaves the interpreter
Exit ==
    /\ pc = "cleaned"
    /\ pc' = "exited"
    /\ exitStatus' = IF pending = "none" THEN 0 ELSE 1
    /\ UNCHANGED <<config, i, sessions, tools, tool_to_server, exit_stack, closed, stdout,
                   pending, nQueries, lastPrint>>
    /\ UNCHANGED queryVars


(***************************************************************************)
(* MCPClient.chat_loop and MCPClient.process_query.                        *)
(***************************************************************************)
\* the tools handed to the model: every provider's list, in the order of self.tools
available_tools == Flatten(tools)

ResetQuery ==
    /\ qpc' = "idle"
    /\ query' = ""
    /\ messages' = <<>>
    /\ final_text' = <<>>
    /\ message' = NoMessage
    /\ k' = 0
    /\ roundStart' = 0
    /\ modelCalls' = 0
    /\ nextId' = 1
    /\ invoked' = <<>>
    /\ responses' = <<>>

\* chat_loop reads a line: the exit keyword leaves the loop, anything else starts
\* process_query, which builds messages and awaits its first model call
ReadInput ==
    /\ pc = "chat_loop"
    /\ qpc = "idle"
    /\ \E line \in Inputs :
          IF Lower(Strip(line)) = "quit"
          THEN /\ pc' = "finally"
               /\ query' = Strip(line)
               /\ lastPrint' = <<>>
               /\ UNCHANGED <<nQueries, qpc, messages, final_text, message, k, roundStart,
                              modelCalls, nextId, invoked, responses>>
          ELSE /\ nQueries < MaxQueries
               /\ nQueries' = nQueries + 1
               /\ query' = Strip(line)
               /\ messages' = << [role |-> "user", content |-> Strip(line)] >>
               /\ qpc' = "AwaitingModel"
               /\ lastPrint' = <<>>
               /\ UNCHANGED <<pc, final_text, message, k, roundStart,
                              modelCalls, nextId, invoked, responses>>
    /\ UNCHANGED startVars

\* the tool calls of a model response: n calls, ids handed out in sequence
ToolCalls(first, n) ==
    {[j \in 1..n |-> [id |-> first + j - 1, name |-> c[j][1], arguments |-> c[j][2]]] :
        c \in [1..n -> RequestCalls]}

\* a bug: only the first response's content is recorded
RecordText_FirstOnly(text, content, first) ==
    IF first THEN Append(text, OrEmpty(content)) ELSE text

\* final_text after a model response: the first response's content is always
\* recorded ("" for None), a later one only when it is non-empty
RecordText(text, content, first) ==
    IF first THEN Append(text, OrEmpty(content))
    ELSE IF Truthy(content) THEN Append(text, content)
    ELSE text

\* a bug: the loop is entered only for more than one tool call
LoopContinues_Several(msg) == Len(msg.tool_calls) > 1

\* while message.tool_calls
LoopContinues(msg) == msg.tool_calls # <<>>

\* a model call returns: the response is recorded and the while condition is tested
ModelResponds ==
    /\ pc = "chat_loop"
    /\ qpc = "AwaitingModel"
    /\ modelCalls < MaxModelCalls
    /\ \E content \in Contents, n \in 0..(MaxCallId + 1 - nextId) :
       \E calls \in ToolCalls(nextId, n) :
          LET msg == [content |-> content, tool_calls |-> calls] IN
          /\ message' = msg
          /\ responses' = Append(responses, msg)
          /\ final_text' = RecordText(final_text, content, modelCalls = 0)
          /\ nextId' = nextId + n
          /\ qpc' = IF LoopContinues(msg) THEN "Dispatching" ELSE "Done"
    /\ modelCalls' = modelCalls + 1
    /\ roundStart' = Len(messages)
    /\ k' = 1
    /\ UNCHANGED <<pc, nQueries, lastPrint, query, messages, invoked>>
    /\ UNCHANGED startVars

\* a bug: the error handling of a failed model call also clears the tool index
ModelRaises_ClearsIndex ==
    /\ pc = "chat_loop"
    /\ qpc = "AwaitingModel"
    /\ lastPrint' = << <<"Error", "model">> >>
    /\ ResetQuery
    /\ tool_to_server' = EmptyDict
    /\ UNCHANGED <<pc, nQueries>>
    /\ UNCHANGED <<config, i, sessions, tools, exit_stack, closed, stdout, pending, exitStatus>>

\* a model call raises: process_query raises, chat_loop prints the error and loops
ModelRaises ==
    /\ pc = "chat_loop"
    /\ qpc = "AwaitingModel"
    /\ lastPrint' = << <<"Error", "model">> >>
    /\ ResetQuery
    /\ UNCHANGED <<pc, nQueries>>
    /\ UNCHANGED startVars

\* dict.get(key) is None
Missing(d, key) == key \notin DOMAIN d

\* a bug: only the tool message is appended, without the assistant message of its call
CallMessages_ToolOnly(call, tool_args, result) ==
    << [role |-> "tool", tool_call_id |-> call.id, content |-> Str(result)] >>

\* the two messages appended for a resolved call
CallMessages(call, tool_args, result) ==
    << [role |-> "assistant",
        tool_calls |-> << [id |-> call.id, type |-> "function", name |-> call.name,
                           arguments |-> JsonDumps(tool_args)] >>],
       [role |-> "tool", tool_call_id |-> call.id, content |-> Str(result)] >>

\* the result of a call_tool that returned, and the stand-in for one that raised
Payload(server, tool) == [isStr |-> FALSE, obj |-> <<"payload", server, tool>>]
FailedText(tool) == << <<"call_failed", tool, "boom">> >>
FailedResult(tool) == [isStr |-> TRUE, text |-> FailedText(tool)]

\* a bug: the except branch builds no result of its own
ResultOf_Stale(raised, session, tool) == Payload(session[2], tool)

\* try: result = await session.call_tool(...)  except Exception: result = <stand-in>
ResultOf(raised, session, tool) ==
    IF raised THEN FailedResult(tool) ELSE Payload(session[2], tool)

\* the line final_text gets for a call that reached call_tool
Annotation(raised, tool, server_name, tool_args) ==
    IF raised THEN << <<"error">> >> \o FailedText(tool)
    ELSE << <<"called", tool, server_name, tool_args>> >>

\* a bug: a call_tool that raised is tried once more before the loop moves on
DispatchToolCall_Retry ==
    /\ pc = "chat_loop"
    /\ qpc = "Dispatching"
    /\ LET call == message.tool_calls[k]
           tool_args == JsonLoads(call.arguments)
           server_name == IF Missing(tool_to_server, call.name) THEN "None"
                          ELSE tool_to_server[call.name]
       IN
       /\ tool_args # "raise"
       /\ IF server_name = "None"
          THEN /\ final_text' = Append(final_text, << <<"error", "no_server", call.name>> >>)
               /\ UNCHANGED <<messages, invoked>>
          ELSE IF Missing(sessions, server_name)
          THEN /\ final_text' = Append(final_text, << <<"error", "no_session", server_name>> >>)
               /\ UNCHANGED <<messages, invoked>>
          ELSE \E raised \in BOOLEAN :
                  LET session == sessions[server_name] IN
                  /\ invoked' = Append(invoked, [session |-> session, name |-> call.name,
                                                 id |-> call.id, raised |-> raised])
                  /\ final_text' = Append(final_text,
                                          Annotation(raised, call.name, server_name, tool_args))
                  /\ messages' = messages \o CallMessages(call, tool_args,
                                                          ResultOf(raised, session, call.name))
    /\ LET again == /\ invoked' # invoked
                     /\ invoked'[Len(invoked')].raised
                     /\ (invoked = <<>> \/ invoked[Len(invoked)].id # message.tool_calls[k].id)
           next == IF again THEN k ELSE k + 1
       IN /\ k' = next
          /\ qpc' = IF next > Len(message.tool_calls) THEN "AwaitingModel" ELSE "Dispatching"
    /\ UNCHANGED <<pc, nQueries, lastPrint, query, message, roundStart, modelCalls, nextId,
                   responses>>
    /\ UNCHANGED startVars

\* one iteration of `for tool_call in message.tool_calls`, arguments decoded
DispatchToolCall ==
    /\ pc = "chat_loop"
    /\ qpc = "Dispatching"
    /\ LET call == message.tool_calls[k]
           tool_args == JsonLoads(call.arguments)
           server_name == IF Missing(tool_to_server, call.name) THEN "None"
                          ELSE tool_to_server[call.name]
       IN
       /\ tool_args # "raise"
       /\ IF server_name = "None"
          THEN /\ final_text' = Append(final_text, << <<"error", "no_server", call.name>> >>)
               /\ UNCHANGED <<messages, invoked>>
          ELSE IF Missing(sessions, server_name)
          THEN /\ final_text' = Append(final_text, << <<"error", "no_session", server_name>> >>)
               /\ UNCHANGED <<messages, invoked>>
          ELSE \E raised \in BOOLEAN :
                  LET session == sessions[server_name] IN
                  /\ invoked' = Append(invoked, [session |-> session, name |-> call.name,
                                                 id |-> call.id, raised |-> raised])
                  /\ final_text' = Append(final_text,
                                          Annotation(raised, call.name, server_name, tool_args))
                  /\ messages' = messages \o CallMessages(call, tool_args,
                                                          ResultOf(raised, session, call.name))
    /\ k' = k + 1
    /\ qpc' = IF k + 1 > Len(message.tool_calls) THEN "AwaitingModel" ELSE "Dispatching"
    /\ UNCHANGED <<pc, nQueries, lastPrint, query, message, roundStart, modelCalls, nextId,
                   responses>>
    /\ UNCHANGED startVars

\* json.loads raises on the call's arguments: process_query raises, chat_loop
\* prints the error and loops
DispatchBadArguments ==
    /\ pc = "chat_loop"
    /\ qpc = "Dispatching"
    /\ JsonLoads(message.tool_calls[k].arguments) = "raise"
    /\ lastPrint' = << <<"Error", "json">> >>
    /\ ResetQuery
    /\ UNCHANGED <<pc, nQueries>>
    /\ UNCHANGED startVars

\* return "\n".join(final_text)
Output == Join(final_text)

\* process_query returns and chat_loop prints "\n" + response
ReturnOutput ==
    /\ pc = "chat_loop"
    /\ qpc = "Done"
    /\ lastPrint' = << <<"nl">> >> \o Output
    /\ ResetQuery
    /\ UNCHANGED <<pc, nQueries>>
    /\ UNCHANGED startVars

Next ==
    \/ LoadConfig
    \/ SkipIncomplete
    \/ ConnectToServer
    \/ ConnectRaises
    \/ EnterChatLoop
    \/ ReadInput
    \/ ModelResponds
    \/ ModelRaises
    \/ DispatchToolCall
    \/ DispatchBadArguments
    \/ ReturnOutput
    \/ Cleanup
    \/ Exit

Spec == Init /\ [][Next]_vars

\* process_query is a coroutine: it goes on as soon as the call it awaits has
\* returned or raised, and every model call and provider call does one or the other
Fairness ==
    /\ WF_vars(ModelResponds \/ ModelRaises)
    /\ WF_vars(DispatchToolCall \/ DispatchBadArguments)
    /\ WF_vars(ReturnOutput)
SpecFair == Spec /\ Fairness


(***************************************************************************)
(* Properties.                                                             *)
(***************************************************************************)
Min(S) == CHOOSE x \in S : \A y \in S : x <= y

\* the provider that registered tool t first: self.tools keeps registration order
FirstOwner(t) == tools[Min({j \in 1..Len(tools) : t \in Range(tools[j][2])})][1]

\* C1: every dispatch of a tool name goes to the connection of the provider that
\* registered the name first, and the index names that provider as the owner.
C1_FirstRegistrantOwns ==
    \A n \in 1..Len(invoked) :
        LET t == invoked[n].name IN
        /\ tool_to_server[t] = FirstOwner(t)
        /\ invoked[n].session = sessions[FirstOwner(t)]

IsToolResult(m) == m.role = "tool"
\* the tool-result messages appended since the last model response
RoundResults == SelectSeq(SubSeq(messages, roundStart + 1, Len(messages)), IsToolResult)

\* C2: when a round's dispatching is over and the next model call is due, the
\* tool-result messages of the round carry the ids of the round's pending calls,
\* one per call, in the order of the calls.
C2_ResultsMatchCalls ==
    (qpc = "AwaitingModel" /\ modelCalls > 0) =>
        [j \in 1..Len(RoundResults) |-> RoundResults[j].tool_call_id]
            = [j \in 1..Len(message.tool_calls) |-> message.tool_calls[j].id]

\* C3: a handled call whose tool name the catalog does not hold reached no
\* provider and has a tool-result message echoing its id in the conversation.
C3_NotFoundAnswered ==
    (qpc \in {"Dispatching", "AwaitingModel"} /\ modelCalls > 0) =>
        \A j \in 1..(k - 1) :
            LET call == message.tool_calls[j] IN
            Missing(tool_to_server, call.name) =>
                /\ \A n \in 1..Len(invoked) : invoked[n].id # call.id
                /\ \E m \in Range(messages) : IsToolResult(m) /\ m.tool_call_id = call.id

\* the positions of the tool-result messages that answer call id
Answers(id) == {j \in 1..Len(messages) : IsToolResult(messages[j])
                                         /\ messages[j].tool_call_id = id}

\* each call that reached a provider has one tool-result message, with the failure
\* text if the invocation raised and the text of the provider's payload if not
C4_ResultPerInvocation ==
    \A n \in 1..Len(invoked) :
        LET c == invoked[n] IN
        /\ Cardinality(Answers(c.id)) = 1
        /\ \A j \in Answers(c.id) :
              messages[j].content =
                  IF c.raised THEN << <<"call_failed", c.name, "boom">> >>
                  ELSE << <<"repr", <<"payload", c.session[2], c.name>> >> >>
\* handling a call that reached a provider moves on to the next call of the round
\* or, after the last one, to the next model call
C4_RoundGoesOn ==
    (qpc = "Dispatching" /\ Len(invoked') > Len(invoked)) =>
        /\ k' = k + 1
        /\ qpc' = IF k' > Len(message.tool_calls) THEN "AwaitingModel" ELSE "Dispatching"
        /\ message' = message

\* C4: every call that reached a provider has exactly one tool-result message;
\* its content is the failure text when the invocation raised and the text of the
\* provider's payload when it returned, whatever the other calls of the round did;
\* and handling such a call always moves on to the next call or the next model call.
C4_PartialFailure == []C4_ResultPerInvocation /\ [][C4_RoundGoesOn]_vars

\* C4 happens: A returned, B raised, C returned in one round, and the next model
\* call was made.
C4_Witness ==
    /\ qpc = "Done"
    /\ modelCalls = 2
    /\ Len(invoked) = 3
    /\ ~invoked[1].raised /\ invoked[2].raised /\ ~invoked[3].raised

\* after a first response without tool calls: done, nothing invoked, output = text
C5_NoCallsState ==
    (qpc # "idle" /\ modelCalls = 1 /\ message.tool_calls = <<>>) =>
        /\ qpc = "Done"
        /\ invoked = <<>>
        /\ Output = IF message.content = NoneVal THEN <<>> ELSE message.content
\* a process_query that is done after one model call only returns
C5_NoCallsStep == (qpc = "Done" /\ modelCalls = 1) => (qpc' = "idle" /\ modelCalls' = 0)

\* C5: when the first model response carries no tool call, process_query is done
\* after that one model call, no provider was invoked, and the output is the
\* response's text, "" when it has none; from there it only returns.
C5_SingleRound == []C5_NoCallsState /\ [][C5_NoCallsStep]_vars

\* C5 happens: the only response has no tool call and no text.
C5_Witness ==
    /\ qpc = "Done"
    /\ modelCalls = 1
    /\ message.content = NoneVal
    /\ Output = <<>>


\* the diagnostic a round limit would leave in the output
LoopLimitExceeded == << <<"error", "LoopLimitExceeded">> >>

\* C6: with the maximum set to RoundLimit model calls, a process_query whose model
\* asks for tools in every response up to that one is done by then, with the
\* LoopLimitExceeded diagnostic in its output.
C6_RoundLimit ==
    (qpc # "idle" /\ modelCalls >= RoundLimit /\ LoopContinues(message)) =>
        /\ qpc = "Done"
        /\ LoopLimitExceeded \in Range(final_text)

Started == <<"started">> \in Range(stdout)
MainLeft == pc \in {"finally", "cleaned", "exited"}

\* C7: a provider holds a session only if its discovery succeeded, and with a
\* configuration that names providers main() leaves its try block only after the
\* interactive loop was entered: a failing provider does not end start-up.
C7_FailedProviderSkipped ==
    /\ \A p \in DOMAIN sessions : p \in OrderedKeys(tools)
    /\ (config.kind = "ok" /\ MainLeft) => Started

\* what the providers answered to list_tools, as connect_to_server printed it
Discovered == {e \in Range(stdout) : e[1] = "has_tools"}
AllConnectsSucceeded ==
    \A e \in Range(stdout) : e[1] = "connecting" => \E f \in Discovered : f[2] = e[2]

\* C8: in the interactive loop every incomplete entry was skipped with a diagnostic
\* and holds no session, every complete entry is connected wherever it stands in
\* the configuration, and the tools offered to the model and the index both hold
\* exactly the union of what the complete providers advertised; and when no
\* connection failed, main() leaves start-up only through the interactive loop.
C8_ValidProvidersServed ==
    /\ pc = "chat_loop" =>
          /\ \A j \in 1..Len(config.servers) :
                LET e == config.servers[j] IN
                IF e.complete
                THEN /\ e.name \in DOMAIN sessions
                     /\ \E f \in Discovered : f[2] = e.name
                ELSE /\ <<"incomplete", e.name>> \in Range(stdout)
                     /\ e.name \notin DOMAIN sessions
                     /\ e.name \notin OrderedKeys(tools)
          /\ Range(available_tools) = UNION {Range(f[3]) : f \in Discovered}
          /\ DOMAIN tool_to_server = UNION {Range(f[3]) : f \in Discovered}
    /\ (config.kind = "ok" /\ MainLeft /\ AllConnectsSucceeded) => Started

\* C8 happens: an incomplete entry stands before a complete one, and the
\* interactive loop runs.
C8_Witness ==
    /\ pc = "chat_loop"
    /\ Len(config.servers) = 2
    /\ ~config.servers[1].complete
    /\ config.servers[2].complete

\* C9: with a missing, invalid or empty configuration the process ends with a
\* nonzero status, having reported the error and never entered the interactive loop.
C9_ConfigErrorExit ==
    (pc = "exited" /\ config.kind # "ok") =>
        /\ exitStatus # 0
        /\ ~Started
        /\ <<"config_error", config.kind>> \in Range(stdout)

\* C10: after cleanup every context that was opened is closed, and no failure of a
\* close is raised to the caller.
C10_ShutdownBestEffort ==
    pc \in {"cleaned", "exited"} =>
        /\ exit_stack = <<>>
        /\ \A e \in Range(stdout) : e[1] = "connected" => Transport(e[2]) \in closed
        /\ \A p \in DOMAIN sessions : sessions[p] \in closed
        /\ pending # "close_error"


\* the exit keyword, trimmed, in the cases the console may deliver
ExitForms == {"quit", "Quit"}

\* a running process_query belongs to the interactive loop and is not on the keyword
C11_LoopState == qpc # "idle" => (pc = "chat_loop" /\ query \notin ExitForms)
\* the loop is left only on the keyword, with no query running, and teardown
\* follows; a line is read only when no query is running; a query that raises is
\* reported and the loop stays
C11_LoopStep ==
    /\ (pc = "chat_loop" /\ pc' # "chat_loop") =>
          (pc' = "finally" /\ qpc = "idle" /\ query' \in ExitForms)
    /\ (pc = "chat_loop" /\ qpc = "idle" /\ query' \in ExitForms) => pc' = "finally"
    /\ nQueries' # nQueries => (qpc = "idle" /\ qpc' = "AwaitingModel")
    /\ (qpc \in {"AwaitingModel", "Dispatching"} /\ qpc' = "idle") =>
          (pc' = "chat_loop" /\ lastPrint' # <<>> /\ lastPrint'[1][1] = "Error")
    /\ pc = "finally" => (pc' = "cleaned" /\ exit_stack' = <<>>)

\* C11: chat_loop is left only when the line read is the exit keyword in any case
\* and with surrounding blanks, and then teardown runs; a process_query that raises
\* is reported and the loop goes on; a line is read only when no query is running.
C11_LoopOnlyEndsOnKeyword == []C11_LoopState /\ [][C11_LoopStep]_vars

\* C11 happens: a query raised, its error is printed, and the loop waits for the
\* next line with a query still to come.
C11_Witness ==
    /\ pc = "chat_loop"
    /\ qpc = "idle"
    /\ lastPrint = << <<"Error", "json">> >>
    /\ nQueries < MaxQueries


\* C12: handling a pending call never ends process_query: whatever fails while
\* the call is decoded, routed or invoked, the for loop moves on to the next call
\* or to the next model call, with one more line in the output log.
C12_CallFailureContained ==
    [][qpc = "Dispatching" =>
          /\ qpc' \in {"Dispatching", "AwaitingModel"}
          /\ k' = k + 1
          /\ Len(final_text') = Len(final_text) + 1]_vars


\* process_query is done exactly when its last response carries no pending call,
\* and no earlier response was without one
C13_DoneState ==
    /\ qpc = "Done" <=>
          (qpc # "idle" /\ responses # <<>> /\ responses[Len(responses)].tool_calls = <<>>)
    /\ \A r \in 1..(Len(responses) - 1) : responses[r].tool_calls # <<>>
\* process_query returns its output only from Done, and from Done it does
\* nothing but return
C13_ReturnStep ==
    /\ (qpc # "idle" /\ qpc' = "idle" /\ lastPrint'[1][1] # "Error") => qpc = "Done"
    /\ qpc = "Done" => (qpc' = "idle" /\ lastPrint'[1][1] = "nl")

\* C13: process_query is done in exactly the round whose model response has no
\* pending call, returns only from there, and, every awaited call returning or
\* failing, every process_query ends, a done one by returning.
C13_ReturnsAtFirstPlainResponse ==
    /\ []C13_DoneState
    /\ [][C13_ReturnStep]_vars
    /\ (qpc # "idle") ~> (qpc = "idle")

\* C13 happens: two responses asked for tools, the third did not, and process_query
\* is done.
C13_Witness ==
    /\ qpc = "Done"
    /\ Len(responses) = 3
    /\ responses[1].tool_calls # <<>>
    /\ responses[2].tool_calls # <<>>


\* the pending requests the model has returned in this process_query, as
\* <<round, position>>, and those the for loop has got past
Requests == {rj \in (1..Len(responses)) \X (1..MaxCallId) :
                rj[2] <= Len(responses[rj[1]].tool_calls)}
Request(rj) == responses[rj[1]].tool_calls[rj[2]]
Handled(rj) == rj[1] < Len(responses) \/ rj[2] < k
Resolved(call) ==
    /\ call.name \in DOMAIN tool_to_server
    /\ tool_to_server[call.name] \in DOMAIN sessions
Invocations(id) == Cardinality({n \in 1..Len(invoked) : invoked[n].id = id})

\* every request has at most one call_tool: exactly one once the loop is past it
\* and it is resolved, none otherwise; every call_tool is for a request
C14_InvokedState ==
    /\ qpc # "idle" =>
          \A rj \in Requests :
             Invocations(Request(rj).id) =
                IF Handled(rj) /\ Resolved(Request(rj)) THEN 1 ELSE 0
    /\ \A n \in 1..Len(invoked) :
          \E rj \in Requests : /\ Request(rj).id = invoked[n].id
                               /\ Request(rj).name = invoked[n].name
\* a step makes at most one call_tool, for the request the loop is at, and the
\* loop moves on whether it returned or raised
C14_InvokeStep ==
    (invoked' # invoked /\ invoked' # <<>>) =>
        /\ qpc = "Dispatching"
        /\ invoked' = Append(invoked, invoked'[Len(invoked')])
        /\ invoked'[Len(invoked')].id = message.tool_calls[k].id
        /\ k' = k + 1

\* C14: each pending request of the model leads to at most one call_tool over
\* the whole process_query, exactly one when its tool and session are resolved,
\* and a call_tool that raised is never made again.
C14_AtMostOnce == []C14_InvokedState /\ [][C14_InvokeStep]_vars

\* C14 happens: a call_tool raised, and the model has been called again since.
C14_Witness ==
    /\ invoked # <<>>
    /\ invoked[1].raised
    /\ Len(responses) >= 2
    /\ qpc = "Dispatching"


\* a is the position of the nearest assistant message before position n of messages
NearestAssistantBefore(a, n) ==
    /\ messages[a].role = "assistant"
    /\ \A b \in (a + 1)..(n - 1) : messages[b].role # "assistant"
CallIds(msg) == {msg.tool_calls[c].id : c \in 1..Len(msg.tool_calls)}
ToolPositions == {n \in 1..Len(messages) : IsToolResult(messages[n])}

C15_AnsweredState ==
    /\ \A n \in ToolPositions :
          \E a \in 1..(n - 1) :
             /\ NearestAssistantBefore(a, n)
             /\ messages[n].tool_call_id \in CallIds(messages[a])
    /\ Cardinality({messages[n].tool_call_id : n \in ToolPositions})
          = Cardinality(ToolPositions)
\* a step of the for loop that extends messages appends the assistant message
\* of the call it is at and, right after it, the tool message with that call's id
C15_AppendStep ==
    (qpc = "Dispatching" /\ qpc' # "idle" /\ messages' # messages) =>
        /\ Len(messages') = Len(messages) + 2
        /\ SubSeq(messages', 1, Len(messages)) = messages
        /\ messages'[Len(messages) + 1].role = "assistant"
        /\ CallIds(messages'[Len(messages) + 1]) = {message.tool_calls[k].id}
        /\ IsToolResult(messages'[Len(messages) + 2])
        /\ messages'[Len(messages) + 2].tool_call_id = message.tool_calls[k].id

\* C15: every tool message of messages answers a tool call of the nearest
\* assistant message before it, which was appended together with it, and no
\* tool_call_id is answered twice.
C15_ResultsAnswerPrecedingAssistant == []C15_AnsweredState /\ [][C15_AppendStep]_vars

\* C15 happens: the conversation holds the results of two rounds, the first of
\* a call that raised.
C15_Witness ==
    /\ Len(responses) >= 2
    /\ Cardinality(ToolPositions) >= 2
    /\ invoked[1].raised
    /\ roundStart >= 3


\* the message at position n of messages is the assistant message the model
\* returned: its content and all of its tool calls
IsReturnedMessage(n, msg) ==
    /\ n <= Len(messages)
    /\ messages[n].role = "assistant"
    /\ "content" \in DOMAIN messages[n]
    /\ messages[n].content = msg.content
    /\ CallIds(messages[n]) = CallIds(msg)

\* C16: when the model is called again, the assistant message it returned last,
\* with its content and all of its tool calls, stands in messages once, before
\* the tool messages of its round.
C16_ReturnedMessageAppended ==
    (qpc = "AwaitingModel" /\ responses # <<>>) =>
        /\ IsReturnedMessage(roundStart + 1, message)
        /\ \A n \in (roundStart + 2)..Len(messages) : ~IsReturnedMessage(n, message)


\* how many tool calls of round r the for loop has got past
HandledIn(r) == IF r < Len(responses) THEN Len(responses[r].tool_calls) ELSE k - 1
\* the segment the content of round r's response makes: always one in the first
\* round, one in a later round when there is text
TextOf(r) ==
    IF r = 1 THEN << [text |-> TRUE, seg |-> OrEmpty(responses[r].content)] >>
    ELSE IF Truthy(responses[r].content)
         THEN << [text |-> TRUE, seg |-> responses[r].content] >>
         ELSE <<>>
RECURSIVE ProductionOrder(_)
\* what final_text has to hold after r rounds: per round the text, then one
\* annotation per handled tool call, in request order
ProductionOrder(r) ==
    IF r = 0 THEN <<>>
    ELSE ProductionOrder(r - 1) \o TextOf(r)
            \o [j \in 1..HandledIn(r) |-> [text |-> FALSE, call |-> responses[r].tool_calls[j]]]
\* seg is the success or error line of call
IsAnnotationOf(seg, call) ==
    /\ seg # <<>>
    /\ \/ seg[1][1] = "called" /\ seg[1][2] = call.name
       \/ seg[1][1] = "error" /\ Len(seg[1]) = 3 /\ seg[1][2] = "no_server"
             /\ seg[1][3] = call.name
       \/ seg[1][1] = "error" /\ Len(seg[1]) = 3 /\ seg[1][2] = "no_session"
       \/ seg[1][1] = "error" /\ Len(seg[1]) = 1 /\ Len(seg) = 2 /\ seg[2][2] = call.name

C17_LogState ==
    qpc # "idle" =>
        LET want == ProductionOrder(Len(responses)) IN
        /\ Len(final_text) = Len(want)
        /\ \A n \in 1..Len(want) :
              IF want[n].text THEN final_text[n] = want[n].seg
              ELSE IsAnnotationOf(final_text[n], want[n].call)
C17_ReturnStep ==
    (qpc = "Done" /\ qpc' = "idle") => lastPrint' = << <<"nl">> >> \o Join(final_text)

\* C17: final_text holds, round after round, the response's text and then one
\* success or error line per tool call in request order, nothing dropped or
\* reordered, and process_query returns its segments joined by newlines.
C17_OutputInProductionOrder == []C17_LogState /\ [][C17_ReturnStep]_vars

\* C17 happens: a first response with text and two tool calls, a second with
\* text and none, and process_query is about to return the four segments.
C17_Witness ==
    /\ qpc = "Done"
    /\ Len(responses) = 2
    /\ Len(responses[1].tool_calls) = 2
    /\ Truthy(responses[1].content)
    /\ Truthy(responses[2].content)
    /\ Len(final_text) = 4


\* every call_tool of the running process_query went to the session of the
\* provider the index names for the tool
C18_RoutedByIndex ==
    \A n \in 1..Len(invoked) :
        /\ invoked[n].name \in DOMAIN tool_to_server
        /\ tool_to_server[invoked[n].name] \in DOMAIN sessions
        /\ invoked[n].session = sessions[tool_to_server[invoked[n].name]]
\* no step of chat_loop or process_query touches the three registries
C18_FrameStep ==
    pc = "chat_loop" =>
        /\ tools' = tools
        /\ tool_to_server' = tool_to_server
        /\ sessions' = sessions

\* C18: once main has entered chat_loop, no step changes tools, tool_to_server
\* or sessions, and every call_tool goes to the session the index names, so the
\* same tool name is routed to the same provider in every query.
C18_RegistriesFrozen == []C18_RoutedByIndex /\ [][C18_FrameStep]_vars

\* C18 happens: the second query of the session dispatches a tool after the
\* first query ended.
C18_Witness ==
    /\ nQueries = 2
    /\ invoked # <<>>
    /\ tool_to_server # EmptyDict


\* the tool list self.tools holds for provider p
StoredTools(p) ==
    IF p \in OrderedKeys(tools)
    THEN Range(tools[CHOOSE j \in 1..Len(tools) : tools[j][1] = p][2])
    ELSE {}
IsNoSessionLine(seg) ==
    /\ seg # <<>>
    /\ seg[1][1] = "error"
    /\ Len(seg[1]) = 3
    /\ seg[1][2] = "no_session"

C19_RegistryState ==
    /\ \A t \in DOMAIN tool_to_server :
          /\ tool_to_server[t] \in DOMAIN sessions
          /\ t \in StoredTools(tool_to_server[t])
    /\ Range(available_tools) \subseteq DOMAIN tool_to_server
\* no step removes an entry of the registries, and no step of the for loop
\* appends the line for a missing session
C19_RegistryStep ==
    /\ DOMAIN sessions \subseteq DOMAIN sessions'
    /\ DOMAIN tool_to_server \subseteq DOMAIN tool_to_server'
    /\ OrderedKeys(tools) \subseteq OrderedKeys(tools')
    /\ (qpc = "Dispatching" /\ qpc' # "idle") =>
          ~IsNoSessionLine(final_text'[Len(final_text')])

\* C19: whatever connect_to_server calls have returned or raised, every tool
\* name of tool_to_server maps to a provider that has a session and whose list
\* in tools holds the name, every tool offered to the model is in
\* tool_to_server, and process_query never reports a missing session.
C19_RegistryConsistent == []C19_RegistryState /\ [][C19_RegistryStep]_vars

\* C19 happens: two providers are connected, both offering t1, and
\* process_query has dispatched a call for a tool the model was offered.
C19_Witness ==
    /\ Cardinality(DOMAIN sessions) = 2
    /\ \A p \in DOMAIN sessions : "t1" \in StoredTools(p)
    /\ Cardinality(DOMAIN tool_to_server) = 2
    /\ invoked # <<>>


(***************************************************************************)
(* The single-provider client, src/client.py: its process_query as a       *)
(* function of the query, the model's responses and how far the for loop   *)
(* has got, for the comparison with MCPClient.process_query above.         *)
(***************************************************************************)
\* the one provider client.py is connected to, and self.session
Single_provider == CHOOSE p \in DOMAIN sessions : TRUE
Single_session == Session(Single_provider)

\* messages = [user]; final_text = []; nothing called yet
Single_Start(q) ==
    [messages |-> << [role |-> "user", content |-> q] >>,
     final_text |-> <<>>, invoked |-> <<>>, modelCalls |-> 0, done |-> FALSE]

\* a bug: a later response's content is recorded even when it is empty
Single_RecordText_Always(text, content, first) == Append(text, OrEmpty(content))

\* final_text.append(message.content or "") for the first response,
\* if message.content: final_text.append(message.content) for a later one
Single_RecordText(text, content, first) ==
    IF first THEN Append(text, OrEmpty(content))
    ELSE IF Truthy(content) THEN Append(text, content)
    ELSE text

\* a model call returned msg; the while condition is tested
Single_Response(st, msg) ==
    [st EXCEPT !.final_text = Single_RecordText(@, msg.content, st.modelCalls = 0),
               !.modelCalls = @ + 1,
               !.done = ~(msg.tool_calls # <<>>)]

\* the line final_text gets for a call
Single_Annotation(tool, tool_args) == << <<"calling", tool, tool_args>> >>

\* the two messages appended for a call
Single_CallMessages(call, tool_args, result) ==
    << [role |-> "assistant",
        tool_calls |-> << [id |-> call.id, type |-> "function", name |-> call.name,
                           arguments |-> JsonDumps(tool_args)] >>],
       [role |-> "tool", tool_call_id |-> call.id, content |-> Str(result)] >>

\* one iteration of the for loop with a call_tool that returns
Single_Call(st, call) ==
    LET tool_args == JsonLoads(call.arguments)
        result == Payload(Single_provider, call.name)
    IN [st EXCEPT !.invoked = Append(@, [session |-> Single_session, name |-> call.name,
                                         id |-> call.id, raised |-> FALSE]),
                  !.final_text = Append(@, Single_Annotation(call.name, tool_args)),
                  !.messages = @ \o Single_CallMessages(call, tool_args, result)]

RECURSIVE Single_Calls(_, _, _)
\* the first n iterations of `for tool_call in message.tool_calls`
Single_Calls(st, calls, n) ==
    IF n = 0 THEN st ELSE Single_Call(Single_Calls(st, calls, n - 1), calls[n])

RECURSIVE Single_Rounds(_, _, _, _)
\* process_query after the first r of the responses rs, the for loop of round j
\* having made handled[j] iterations
Single_Rounds(q, rs, handled, r) ==
    IF r = 0 THEN Single_Start(q)
    ELSE Single_Calls(Single_Response(Single_Rounds(q, rs, handled, r - 1), rs[r]),
                      rs[r].tool_calls, handled[r])

\* client.py's process_query given what the running process_query was given
Single_process_query ==
    Single_Rounds(query, responses, [r \in 1..Len(responses) |-> HandledIn(r)],
                  Len(responses))

\* one provider is connected, the model asked only for tools it advertises, and
\* no call_tool raised
OneProviderAllSucceed ==
    /\ Cardinality(DOMAIN sessions) = 1
    /\ OrderedKeys(tools) = DOMAIN sessions
    /\ \A rj \in Requests : Request(rj).name \in StoredTools(Single_provider)
    /\ \A n \in 1..Len(invoked) : ~invoked[n].raised

\* two segments are the same, or are the two clients' lines for the same call
SameButWording(seg, single) ==
    \/ seg = single
    \/ /\ seg # <<>> /\ single # <<>>
       /\ seg[1][1] = "called" /\ single[1][1] = "calling"
       /\ seg[1][2] = single[1][2]
       /\ seg[1][4] = single[1][3]

\* two tokens of an output are the same, or are the two clients' lines for the same call
SameTokenButWording(tok, single) ==
    \/ tok = single
    \/ /\ tok[1] = "called" /\ single[1] = "calling"
       /\ tok[2] = single[2]
       /\ tok[4] = single[3]

C20_AgreeState ==
    (qpc # "idle" /\ OneProviderAllSucceed) =>
        LET single == Single_process_query IN
        /\ single.invoked = invoked
        /\ single.messages = messages
        /\ single.modelCalls = modelCalls
        /\ single.done = (qpc = "Done")
        /\ Len(single.final_text) = Len(final_text)
        /\ \A n \in 1..Len(final_text) : SameButWording(final_text[n], single.final_text[n])
\* when process_query returns, client.py returns the same output but for the wording
C20_ReturnStep ==
    (qpc = "Done" /\ qpc' = "idle" /\ OneProviderAllSucceed) =>
        LET out == Join(final_text)
            single == Join(Single_process_query.final_text)
        IN /\ lastPrint' = << <<"nl">> >> \o out
           /\ Len(single) = Len(out)
           /\ \A n \in 1..Len(out) : SameTokenButWording(out[n], single[n])

=============================================================================
